---- MODULE Spec2Model ----
(***************************************************************************)
(* State-machine model of swift/obj/updater.py (ObjectUpdater): the sweep  *)
(* coordinator (update_forever, update_once_single_threaded), the record   *)
(* store walker (object_sweep), the record processor                       *)
(* (process_object_update) and the replica delivery client (object_update).*)
(***************************************************************************)
EXTENDS Integers, Sequences, FiniteSets, TLC

(* ------------------------------ bounds -------------------------------- *)
\* number of records the external producer writes in one behaviour
MaxRecords == 2
\* largest configured value of the 'concurrency' option
MaxConcurrency == 2

(* ------------------------- program constants -------------------------- *)
\* the synthetic status object_update returns after any failure
SyntheticError == 500
\* the single status outside 2xx that process_object_update accepts
NotFound == 404
\* bounds of the accepted range in `200 <= status < 300`
OkLow == 200
OkHigh == 300

(* ----------------------------- universe ------------------------------- *)
Devices == {"sda", "sdb"}
\* a record file: <<device, prefix (bucket), base name>>
RecordPaths ==
    { <<"sda", "a01", "u1">>, <<"sda", "a01", "u2">>,
      <<"sda", "b02", "u3">>, <<"sdb", "a01", "u4">> }
Dev(p) == p[1]
Prefix(p) == p[2]
BaseName(p) == p[3]
Bucket(p) == <<p[1], p[2]>>
NoPath == <<>>
NoDict == [none |-> TRUE]
NoFile == [ok |-> FALSE, dict |-> NoDict]

\* file contents the producer (or disk corruption) may leave in a record file
GoodC1 == [ok |-> TRUE, dict |-> [account |-> "a", container |-> "c1",
                                   obj |-> "o", op |-> "PUT", headers |-> "h"]]
GoodC2 == [ok |-> TRUE, dict |-> [account |-> "a", container |-> "c2",
                                   obj |-> "o", op |-> "DELETE", headers |-> "h"]]
NoAccount == [ok |-> TRUE, dict |-> [container |-> "c1",
                                      obj |-> "o", op |-> "PUT", headers |-> "h"]]
Garbage == [ok |-> FALSE, dict |-> [junk |-> TRUE]]
Contents == {GoodC1, GoodC2, NoAccount, Garbage}
\* the record files the producer may write, each with the contents it may have
Writes ==
    { <<<<"sda", "a01", "u1">>, GoodC1>>, <<<<"sda", "a01", "u1">>, Garbage>>,
      <<<<"sda", "a01", "u2">>, GoodC1>>, <<<<"sda", "a01", "u2">>, NoAccount>>,
      <<<<"sda", "b02", "u3">>, GoodC2>>,
      <<<<"sdb", "a01", "u4">>, GoodC1>> }

\* a valid record: it deserializes and holds every field the processor reads
Valid(content) ==
    /\ content.ok
    /\ {"account", "container", "obj", "op", "headers"} \subseteq DOMAIN content.dict

\* what one delivery meets: a failure at one stage, or a fully read response
Failures == {"connect_timeout", "connect_error", "response_timeout",
             "protocol_error", "read_timeout"}
\* the deliveries of the sweep model: a replica answers 204 or 404, or the
\* response times out
Envs == [fail : {"response_timeout"}, status : {0}]
            \cup [fail : {"none"}, status : {204, 404}]
\* every status a replica can answer with, for the isolated delivery call
AllReplies == 100..599
AllEnvs == [fail : Failures, status : {0}] \cup [fail : {"none"}, status : AllReplies]

RingVersions == {1, 2}
\* process slots for the children: one sweep forks at most one per device
Pids == 1..Cardinality(Devices)
\* execution contexts that can run object_sweep: 0 is the calling process
\* (single-pass mode), the others are forked workers (continuous mode)
Ctx == {0} \cup Pids

VARIABLES
    mode,         \* "once" | "forever": the entry point that was invoked
    mount_check,  \* self.mount_check
    concurrency,  \* self.concurrency
    mounted,      \* devices for which os.path.ismount holds
    asyncdir,     \* devices that have an async_pending directory
    buckets,      \* existing bucket directories <<device, prefix>>
    files,        \* record path -> content, or NoFile
    quarantine,   \* <<device, base name>> -> content, or NoFile
    ring,         \* the ring version the resolver currently answers from
    mpc,          \* position of the calling process / coordinator
    devList,      \* devices of os.listdir(self.devices) not yet iterated
    curdev,       \* the device the coordinator is about to fork for
    pids,         \* the coordinator's list of unreaped children
    sw,           \* context -> state of object_sweep running in it
    origin,       \* history: record path -> content the producer wrote
    tried,        \* history: pending record path -> ring version of the first
                  \* pass that retained the record, 0 if there was none
    call          \* one isolated call of object_update and its classification

vars == <<mode, mount_check, concurrency, mounted, asyncdir, buckets, files,
          quarantine, ring, mpc, devList, curdev, pids, sw, origin,
          tried, call>>

fsvars == <<asyncdir, buckets, files, quarantine>>
coordvars == <<mpc, devList, curdev, pids>>
confvars == <<mode, mount_check, concurrency>>

(* --------------------------- pure functions --------------------------- *)
\* pickle.load(open(update_path)): the dict, or an exception
PickleLoad(content) ==
    IF content.ok
    THEN [raised |-> FALSE, value |-> content.dict]
    ELSE [raised |-> TRUE, value |-> NoDict]

\* Ring.get_nodes(account, container): partition and ordered replica nodes
GetNodes(r, account, container) ==
    IF container = "c1"
    THEN [part |-> 7, nodes |-> IF r = 1 THEN <<"n1", "n2">> ELSE <<"n2", "n3">>]
    ELSE [part |-> 9, nodes |-> IF r = 1 THEN <<>> ELSE <<"n1">>]

\* mutant: the replica set is the one of the ring as it was first loaded
ResolveCached(r, update) == GetNodes(1, update.account, update.container)

\* lines 158-159: the lookup in the container ring, made in every call
Resolve(r, update) == GetNodes(r, update.account, update.container)

\* mutant: the 404 exemption is dropped
AcceptableWithout404(status) ==
    OkLow <= status /\ status < OkHigh

\* mutant: the upper end of the range is taken inclusive
AcceptableInclusive(status) ==
    (OkLow <= status /\ status <= OkHigh) \/ status = NotFound

\* the test of line 166, negated: the outcome counts as delivered
Acceptable(status) ==
    (OkLow <= status /\ status < OkHigh) \/ status = NotFound

\* mutant: the handler is `except Exception`, which an eventlet Timeout
\* (a BaseException) passes through
ObjectUpdateTimeoutEscapes(e) ==
    IF e.fail \in {"connect_timeout", "response_timeout", "read_timeout"}
    THEN [raised |-> TRUE, status |-> 0, connects |-> 1, read |-> FALSE]
    ELSE IF e.fail \in {"connect_error", "protocol_error"}
    THEN [raised |-> FALSE, status |-> SyntheticError, connects |-> 1, read |-> FALSE]
    ELSE [raised |-> FALSE, status |-> e.status, connects |-> 1, read |-> TRUE]

\* object_update: connect, getresponse, read, return resp.status; the bare
\* except turns every failure into the synthetic status
ObjectUpdate(e) ==
    IF e.fail \in {"connect_timeout", "connect_error"}
    THEN [raised |-> FALSE, status |-> SyntheticError, connects |-> 1, read |-> FALSE]
    ELSE IF e.fail \in {"response_timeout", "protocol_error", "read_timeout"}
    THEN [raised |-> FALSE, status |-> SyntheticError, connects |-> 1, read |-> FALSE]
    ELSE [raised |-> FALSE, status |-> e.status, connects |-> 1, read |-> TRUE]

\* mutant: the quarantine target is built from the update path's directory
\* name instead of its base name
QuarantinePathDirname(p) == <<Dev(p), Prefix(p)>>

\* the target of the renamer call of lines 155-156
QuarantinePath(p) == <<Dev(p), BaseName(p)>>
QuarantinePaths == { <<p[1], p[3]>> : p \in RecordPaths }

\* mutant: the loop breaks at the first unacceptable status
LoopStopsAtFailure(acc, nodes) == acc.i <= Len(nodes) /\ acc.success

\* the loop of line 163 goes on to node number i
LoopContinues(acc, nodes) == acc.i <= Len(nodes)

\* mutant: success is assigned from every status, so the last one decides
LoopBodyLastWins(acc, node, part, e) ==
    LET r == ObjectUpdate(e)
    IN [i |-> acc.i + 1,
        raised |-> r.raised,
        success |-> Acceptable(r.status),
        attempts |-> acc.attempts \o [k \in 1..r.connects |-> <<node, part>>],
        statuses |-> IF r.raised THEN acc.statuses ELSE Append(acc.statuses, r.status)]

\* the body of the loop, lines 164-167, for one node
LoopBody(acc, node, part, e) ==
    LET r == ObjectUpdate(e)
    IN [i |-> acc.i + 1,
        raised |-> r.raised,
        success |-> IF ~r.raised /\ ~Acceptable(r.status) THEN FALSE ELSE acc.success,
        attempts |-> acc.attempts \o [k \in 1..r.connects |-> <<node, part>>],
        statuses |-> IF r.raised THEN acc.statuses ELSE Append(acc.statuses, r.status)]

RECURSIVE DeliverLoop(_, _, _, _)
DeliverLoop(acc, nodes, part, envs) ==
    IF acc.raised \/ ~LoopContinues(acc, nodes)
    THEN acc
    ELSE DeliverLoop(LoopBody(acc, nodes[acc.i], part, envs[acc.i]), nodes, part, envs)

\* mutant: success starts as False and needs one acceptable status
InitialAccNeedsOne ==
    [i |-> 1, raised |-> FALSE, success |-> FALSE, attempts |-> <<>>,
     statuses |-> <<>>]

\* line 162: success = True, before the first node
InitialAcc ==
    [i |-> 1, raised |-> FALSE, success |-> TRUE, attempts |-> <<>>,
     statuses |-> <<>>]

\* mutant: os.unlink sits after the if/else and runs in both branches
DecideUnlinksAlways(success) ==
    IF success
    THEN [unlink |-> TRUE, successes |-> 1, failures |-> 0, last |-> "retired"]
    ELSE [unlink |-> TRUE, successes |-> 0, failures |-> 1, last |-> "retained"]

\* lines 168-174: what becomes of the record and of the counters
Decide(success) ==
    IF success
    THEN [unlink |-> TRUE, successes |-> 1, failures |-> 0, last |-> "retired"]
    ELSE [unlink |-> FALSE, successes |-> 0, failures |-> 1, last |-> "retained"]

\* process_object_update on a file with this content, the ring at version r,
\* the deliveries meeting envs: what the call does
ProcessObjectUpdate(content, r, envs) ==
    LET ld == PickleLoad(content)
        none == [raised |-> FALSE, quarantine |-> FALSE, unlink |-> FALSE,
                 successes |-> 0, failures |-> 0, last |-> "none",
                 lookups |-> 0, part |-> 0, nodes |-> <<>>,
                 attempts |-> <<>>, statuses |-> <<>>]
    IN IF ld.raised
       THEN [none EXCEPT !.quarantine = TRUE, !.last = "quarantined"]
       ELSE IF ~({"account", "container", "obj"} \subseteq DOMAIN ld.value)
       THEN [none EXCEPT !.raised = TRUE, !.last = "raised"]
       ELSE LET g == Resolve(r, ld.value)
                found == [none EXCEPT !.lookups = 1, !.part = g.part,
                                      !.nodes = g.nodes]
            IN IF g.nodes # <<>> /\ ~({"op", "headers"} \subseteq DOMAIN ld.value)
               THEN [found EXCEPT !.raised = TRUE, !.last = "raised"]
               ELSE LET acc == DeliverLoop(InitialAcc, g.nodes, g.part, envs)
                        dec == Decide(acc.success)
                    IN IF acc.raised
                       THEN [found EXCEPT !.raised = TRUE, !.last = "raised",
                                          !.attempts = acc.attempts,
                                          !.statuses = acc.statuses]
                       ELSE [found EXCEPT !.unlink = dec.unlink,
                                          !.successes = dec.successes,
                                          !.failures = dec.failures,
                                          !.last = dec.last,
                                          !.attempts = acc.attempts,
                                          !.statuses = acc.statuses]

(* ------------------------------- Init --------------------------------- *)
\* a context that is not sweeping; the seven fields from update on record
\* the latest call of process_object_update in the context, rmdir the bucket
\* os.rmdir was last called on and what became of the call
Idle ==
    [pc |-> "idle", device |-> "", prefixes |-> {}, prefix |-> "",
     updates |-> {}, successes |-> 0, failures |-> 0,
     update |-> NoPath, part |-> 0, nodes |-> <<>>, lookups |-> 0,
     attempts |-> <<>>, statuses |-> <<>>, last |-> "none",
     rmdir |-> [prefix |-> "", result |-> "none"]]

NoCall == [env |-> [fail |-> "none", status |-> 0], raised |-> FALSE,
           status |-> 0, connects |-> 0, accepted |-> FALSE, done |-> FALSE]

Init ==
    /\ mode \in {"once", "forever"}
    /\ mount_check \in BOOLEAN
    \* a limit above the number of devices never binds: a sweep forks at
    \* most one child per device; single-pass mode does not read the option
    /\ concurrency \in 1..MaxConcurrency
    /\ concurrency <= Cardinality(Devices)
    /\ mode = "once" => concurrency = 1
    /\ mounted = Devices
    /\ asyncdir = {}
    /\ buckets = {}
    /\ files = [p \in RecordPaths |-> NoFile]
    /\ quarantine = [q \in QuarantinePaths |-> NoFile]
    /\ ring = 1
    /\ mpc = "start"
    /\ devList = {}
    /\ curdev = ""
    /\ pids = {}
    /\ sw = [c \in Ctx |-> Idle]
    /\ origin = [p \in RecordPaths |-> NoFile]
    /\ tried = [p \in RecordPaths |-> 0]
    /\ call = NoCall

(* ---------------------------- environment ----------------------------- *)
Created == { p \in RecordPaths : origin[p] # NoFile }

\* the external producer writes one new record file (and its directories)
Produce(p, content) ==
    /\ origin[p] = NoFile
    /\ <<p, content>> \in Writes
    /\ Cardinality(Created) < MaxRecords
    /\ files' = [files EXCEPT ![p] = content]
    /\ origin' = [origin EXCEPT ![p] = content]
    /\ buckets' = buckets \cup {Bucket(p)}
    /\ asyncdir' = asyncdir \cup {Dev(p)}
    /\ UNCHANGED <<confvars, mounted, quarantine, ring, coordvars, sw, tried,
                   call>>

\* contexts that are inside object_sweep
Sweeping(c) == sw[c].pc \notin {"idle", "exited", "raised", "aborted"}

\* a device is mounted or unmounted. os.path.ismount is read once for each
\* device in a sweep, so a change during a sweep that is not walking the
\* device is seen as a change before or after the sweep
ToggleMount(d) ==
    /\ mpc \in {"start", "done", "dead"}
    /\ mount_check
    /\ mounted' = IF d \in mounted THEN mounted \ {d} ELSE mounted \cup {d}
    /\ UNCHANGED <<confvars, fsvars, ring, coordvars, sw, origin, tried, call>>

\* the cluster topology changes between two sweeps: the ring answers from a
\* newer version
RingChange ==
    /\ mpc \in {"start", "done", "dead"}
    /\ ring' \in { r \in RingVersions : r > ring }
    /\ UNCHANGED <<confvars, mounted, fsvars, coordvars, sw, origin, tried, call>>

(* --------------------------- object_sweep ----------------------------- *)
\* mutant: the single-pass loop resets the counters after every device
ReturnResets(c, s) ==
    /\ sw' = [sw EXCEPT ![c] = IF c = 0 THEN Idle ELSE [Idle EXCEPT !.pc = "exited"]]
    /\ mpc' = IF c = 0 THEN "devloop" ELSE mpc

\* object_sweep returns to its caller: the single-pass loop, or the
\* worker's report and sys.exit()
Return(c, s) ==
    /\ sw' = [sw EXCEPT ![c] =
                IF c = 0
                THEN [Idle EXCEPT !.successes = s.successes,
                                  !.failures = s.failures]
                ELSE [Idle EXCEPT !.pc = "exited"]]
    /\ mpc' = IF c = 0 THEN "devloop" ELSE mpc

\* an exception leaves process_object_update and object_sweep uncaught: the
\* process that runs the sweep dies with a traceback
Raise(c, s) ==
    /\ sw' = [sw EXCEPT ![c] = [s EXCEPT !.pc = "raised"]]
    /\ mpc' = IF c = 0 THEN "dead" ELSE mpc

ListDir(b) == { p \in RecordPaths : Bucket(p) = b /\ files[p] # NoFile }

\* os.listdir(async_pending) raises OSError (the directory cannot be read):
\* nothing in object_sweep or in its callers catches it, so the process that
\* runs the sweep dies
ListDirFails(c) ==
    /\ sw[c].pc = "sweep"
    /\ sw[c].device \in asyncdir
    /\ sw' = [sw EXCEPT ![c] = [Idle EXCEPT !.pc = "aborted"]]
    /\ mpc' = IF c = 0 THEN "dead" ELSE mpc
    /\ UNCHANGED <<confvars, mounted, fsvars, ring, devList, curdev, pids,
                   origin, tried, call>>

\* lines 125-128: no async_pending directory, or the listing of its buckets
SweepStart(c) ==
    /\ sw[c].pc = "sweep"
    /\ IF sw[c].device \notin asyncdir
       THEN Return(c, sw[c])
       ELSE /\ sw' = [sw EXCEPT ![c].pc = "prefixes",
                                ![c].prefixes =
                                    { b[2] : b \in { x \in buckets : x[1] = sw[c].device } }]
            /\ mpc' = mpc
    /\ UNCHANGED <<confvars, mounted, fsvars, ring, devList, curdev, pids,
                   origin, tried, call>>

\* lines 128-132: the next bucket and the listing of its record files
NextPrefix(c) ==
    /\ sw[c].pc = "prefixes"
    /\ IF sw[c].prefixes = {}
       THEN Return(c, sw[c])
       ELSE /\ \E pre \in sw[c].prefixes :
                 sw' = [sw EXCEPT ![c] =
                    IF <<sw[c].device, pre>> \notin buckets
                    THEN [sw[c] EXCEPT !.prefixes = @ \ {pre}]
                    ELSE [sw[c] EXCEPT !.prefixes = @ \ {pre},
                                       !.rmdir = Idle.rmdir,
                                       !.prefix = pre,
                                       !.updates = ListDir(<<sw[c].device, pre>>),
                                       !.pc = "updates"]]
            /\ mpc' = mpc
    /\ UNCHANGED <<confvars, mounted, fsvars, ring, devList, curdev, pids,
                   origin, tried, call>>

\* mutant: the bucket is removed whether or not it is empty
RmdirRecursive(b) == buckets \ {b}

\* os.rmdir(prefix_path), OSError ignored
Rmdir(b) == IF ListDir(b) = {} THEN buckets \ {b} ELSE buckets

\* lines 138-141: the records of the bucket were all visited
EndPrefix(c) ==
    /\ sw[c].pc = "updates"
    /\ sw[c].updates = {}
    /\ buckets' = Rmdir(<<sw[c].device, sw[c].prefix>>)
    /\ sw' = [sw EXCEPT ![c] =
                [Idle EXCEPT !.pc = "prefixes",
                             !.device = sw[c].device,
                             !.prefixes = sw[c].prefixes,
                             !.successes = sw[c].successes,
                             !.failures = sw[c].failures,
                             !.rmdir = [prefix |-> sw[c].prefix,
                                        result |->
                                          IF <<sw[c].device, sw[c].prefix>> \in
                                               Rmdir(<<sw[c].device, sw[c].prefix>>)
                                          THEN "failed" ELSE "removed"]]]
    /\ UNCHANGED <<confvars, mounted, asyncdir, files, quarantine, ring,
                   coordvars, origin, tried, call>>

\* the nodes whose deliveries process_object_update can reach for a file
Reachable(content, r) ==
    IF content.ok /\ {"account", "container"} \subseteq DOMAIN content.dict
    THEN GetNodes(r, content.dict.account, content.dict.container).nodes
    ELSE <<>>

\* renamer(old, new): the file leaves old and appears at new
Renamer(p, q) ==
    /\ files' = [files EXCEPT ![p] = NoFile]
    /\ quarantine' = [quarantine EXCEPT ![q] = files[p]]

\* os.path.isfile(update_path)
IsFile(u) == files[u] # NoFile

\* mutant: the file is emptied in place of being removed
UnlinkTruncates(u) == [files EXCEPT ![u] = Garbage]

\* os.unlink(update_path), line 171
Unlink(u) == [files EXCEPT ![u] = NoFile]

\* lines 132-137: one iteration over the listing: the isfile test, then
\* process_object_update on the record (and the slowdown sleep)
NextUpdate(c) ==
    /\ sw[c].pc = "updates"
    /\ \E u \in sw[c].updates :
         IF ~IsFile(u)
         THEN /\ sw' = [sw EXCEPT ![c].updates = @ \ {u}]
              /\ UNCHANGED <<files, quarantine, mpc, tried>>
         ELSE \E envs \in [1..Len(Reachable(files[u], ring)) -> Envs] :
                LET out == ProcessObjectUpdate(files[u], ring, envs)
                    s == [sw[c] EXCEPT !.updates = @ \ {u},
                                       !.update = u,
                                       !.successes = @ + out.successes,
                                       !.failures = @ + out.failures,
                                       !.part = out.part,
                                       !.nodes = out.nodes,
                                       !.lookups = out.lookups,
                                       !.attempts = out.attempts,
                                       !.statuses = out.statuses,
                                       !.last = out.last]
                IN /\ tried' = [tried EXCEPT ![u] =
                                  IF out.last # "retained" THEN 0
                                  ELSE IF @ = 0 THEN ring ELSE @]
                   /\ IF out.raised
                      THEN /\ Raise(c, s)
                           /\ UNCHANGED <<files, quarantine>>
                      ELSE /\ sw' = [sw EXCEPT ![c] = s]
                           /\ mpc' = mpc
                           /\ IF out.quarantine
                              THEN Renamer(u, QuarantinePath(u))
                              ELSE /\ files' = IF out.unlink
                                               THEN Unlink(u)
                                               ELSE files
                                   /\ quarantine' = quarantine
    /\ UNCHANGED <<confvars, mounted, asyncdir, buckets, ring, devList, curdev,
                   pids, origin, call>>

(* -------------------- update_once_single_threaded --------------------- *)
\* mutant: the `not` of the mount test is lost
SkipsMounted(d) == mount_check /\ d \in mounted

\* the mount test of lines 72-73 and 108-109: the device is passed over
Skips(d) == mount_check /\ d \notin mounted

OnceBegin ==
    /\ mode = "once"
    /\ mpc \in {"start", "done", "dead"}
    /\ sw' = [sw EXCEPT ![0] = Idle]
    /\ devList' = Devices
    /\ mpc' = "devloop"
    /\ UNCHANGED <<confvars, mounted, fsvars, ring, curdev, pids, origin, tried, call>>

\* lines 107-113: the next device is skipped or swept in this process
OnceNextDevice ==
    /\ mode = "once"
    /\ mpc = "devloop"
    /\ \E d \in devList :
         /\ devList' = devList \ {d}
         /\ IF Skips(d)
            THEN UNCHANGED <<sw, mpc>>
            ELSE /\ sw' = [sw EXCEPT ![0].pc = "sweep", ![0].device = d]
                 /\ mpc' = "sweeping"
    /\ UNCHANGED <<confvars, mounted, fsvars, ring, curdev, pids,
                   origin, tried, call>>

\* lines 114-117: the loop is over, the totals are logged, the call returns
OnceEnd ==
    /\ mode = "once"
    /\ mpc = "devloop"
    /\ devList = {}
    /\ mpc' = "done"
    /\ UNCHANGED <<confvars, mounted, fsvars, ring, devList, curdev, pids,
                   sw, origin, tried, call>>

(* -------------------------- update_forever ---------------------------- *)
\* lines 66-71: a sweep begins
CoordBegin ==
    /\ mode = "forever"
    /\ mpc = "start"
    /\ pids' = {}
    /\ devList' = Devices
    /\ mpc' = "devloop"
    /\ UNCHANGED <<confvars, mounted, fsvars, ring, curdev, sw, origin, tried, call>>

\* lines 71-76: the next device is skipped or goes on to the fork
CoordNextDevice ==
    /\ mode = "forever"
    /\ mpc = "devloop"
    /\ \E d \in devList :
         /\ devList' = devList \ {d}
         /\ IF Skips(d)
            THEN UNCHANGED <<curdev, mpc>>
            ELSE /\ curdev' = d
                 /\ mpc' = "slot"
    /\ UNCHANGED <<confvars, mounted, fsvars, ring, pids, sw, origin, tried,
                   call>>

\* mutant: the while loop tests > instead of >=
SlotsFullOffByOne == Cardinality(pids) > concurrency

\* the test of the while loop of line 77
SlotsFull == Cardinality(pids) >= concurrency

\* mutant: the pid that os.wait returned is not taken off the list
ReapKeepsPid(pid) ==
    /\ sw[pid].pc \in {"exited", "raised", "aborted"}
    /\ pids' = pids
    /\ sw' = [sw EXCEPT ![pid] = Idle]

\* os.wait() returns a child that has exited; pids.remove(pid)
Reap(pid) ==
    /\ sw[pid].pc \in {"exited", "raised", "aborted"}
    /\ pids' = pids \ {pid}
    /\ sw' = [sw EXCEPT ![pid] = Idle]

\* lines 77-78: all slots are taken, wait for a child
CoordWait ==
    /\ mode = "forever"
    /\ mpc = "slot"
    /\ SlotsFull
    /\ \E pid \in Pids : Reap(pid)
    /\ UNCHANGED <<confvars, mounted, fsvars, ring, mpc, devList, curdev,
                   origin, tried, call>>

\* lines 79-88: fork; the child resets its counters and enters object_sweep
CoordFork ==
    /\ mode = "forever"
    /\ mpc = "slot"
    /\ ~SlotsFull
    /\ \E pid \in Pids :
         /\ sw[pid].pc = "idle"
         /\ \A q \in Pids : sw[q].pc = "idle" => pid <= q
         /\ pids' = pids \cup {pid}
         /\ sw' = [sw EXCEPT ![pid] =
                     [Idle EXCEPT !.pc = "sweep", !.device = curdev,
                                  !.successes = 0, !.failures = 0]]
    /\ curdev' = ""
    /\ mpc' = "devloop"
    /\ UNCHANGED <<confvars, mounted, fsvars, ring, devList, origin, tried,
                   call>>

\* mutant: the loop of lines 94-95 is left out
ChildrenLeftNever == FALSE

\* the test of the while loop of line 94
ChildrenLeft == pids # {}

\* lines 94-95: every device was visited, wait for the remaining children
CoordDrain ==
    /\ mode = "forever"
    /\ mpc = "devloop"
    /\ devList = {}
    /\ ChildrenLeft
    /\ \E pid \in Pids : Reap(pid)
    /\ UNCHANGED <<confvars, mounted, fsvars, ring, mpc, devList, curdev,
                   origin, tried, call>>

\* lines 96-99: the sweep is over; sleep, then the next iteration
CoordEndSweep ==
    /\ mode = "forever"
    /\ mpc = "devloop"
    /\ devList = {}
    /\ ~ChildrenLeft
    /\ mpc' = "start"
    /\ UNCHANGED <<confvars, mounted, fsvars, ring, devList, curdev, pids,
                   sw, origin, tried, call>>

(* ---------------------------- termination ----------------------------- *)
\* the process running a sweep is terminated from outside, at any step
Kill(c) ==
    /\ Sweeping(c)
    /\ sw' = [sw EXCEPT ![c] = [Idle EXCEPT !.pc = "exited",
                                            !.last = "killed"]]
    /\ mpc' = IF c = 0 THEN "dead" ELSE mpc
    /\ UNCHANGED <<confvars, mounted, fsvars, ring, devList, curdev, pids,
                   origin, tried, call>>

(* ------------------ one delivery, taken on its own --------------------- *)
\* the state outside the call is that of a fresh single-pass updater
InitCall ==
    /\ mode = "once"
    /\ mount_check = TRUE
    /\ concurrency = 1
    /\ mounted = Devices
    /\ asyncdir = {}
    /\ buckets = {}
    /\ files = [p \in RecordPaths |-> NoFile]
    /\ quarantine = [q \in QuarantinePaths |-> NoFile]
    /\ ring = 1
    /\ mpc = "start"
    /\ devList = {}
    /\ curdev = ""
    /\ pids = {}
    /\ sw = [c \in Ctx |-> Idle]
    /\ origin = [p \in RecordPaths |-> NoFile]
    /\ tried = [p \in RecordPaths |-> 0]
    /\ call \in { [NoCall EXCEPT !.env = e] : e \in AllEnvs }

\* lines 164-167 for one node: object_update is called and its status is
\* classified
CallObjectUpdate ==
    /\ ~call.done
    /\ LET r == ObjectUpdate(call.env)
       IN call' = [call EXCEPT !.raised = r.raised,
                               !.status = r.status,
                               !.connects = r.connects,
                               !.accepted = ~r.raised /\ Acceptable(r.status),
                               !.done = TRUE]
    /\ UNCHANGED <<confvars, mounted, fsvars, ring, coordvars, sw, origin, tried>>

SpecCall == InitCall /\ [][CallObjectUpdate]_vars

(* --------------------------- specification ---------------------------- *)
Next ==
    \/ \E p \in RecordPaths, content \in Contents : Produce(p, content)
    \/ \E d \in Devices : ToggleMount(d)
    \/ RingChange
    \/ OnceBegin
    \/ OnceNextDevice
    \/ OnceEnd
    \/ CoordBegin
    \/ CoordNextDevice
    \/ CoordWait
    \/ CoordFork
    \/ CoordDrain
    \/ CoordEndSweep
    \/ \E c \in Ctx : SweepStart(c)
    \/ \E c \in Ctx : ListDirFails(c)
    \/ \E c \in Ctx : NextPrefix(c)
    \/ \E c \in Ctx : NextUpdate(c)
    \/ \E c \in Ctx : EndPrefix(c)
    \/ \E c \in Ctx : Kill(c)

Spec == Init /\ [][Next]_vars

(* ------------------------------ properties ---------------------------- *)
\* the outcome classes as the specification words them
InOkRange(st) == 200 <= st /\ st <= 299
SpecAcceptable(st) == InOkRange(st) \/ st = 404
AllAcceptable(sts) == \A k \in 1..Len(sts) : SpecAcceptable(sts[k])
SomeUnacceptable(sts) == \E k \in 1..Len(sts) : ~SpecAcceptable(sts[k])

\* in this step context c ran process_object_update on the record
\* sw'[c].update, which it took from its listing
Processed(c) ==
    /\ sw[c].pc = "updates"
    /\ sw'[c].update \in sw[c].updates

\* the replicas the ring resolves for the record file u in the current state
ResolvedFor(u) ==
    GetNodes(ring, files[u].dict.account, files[u].dict.container)

\* C1: a record leaves the pending set only by a call of
\* process_object_update on it that either quarantines it because it does not
\* deserialize, or deletes it after every replica resolved in that call
\* returned an acceptable status; nothing else (the walker, bucket removal,
\* the coordinator, the termination of a process at any step) removes it.
C1_NoRecordLost ==
    [][\A p \in RecordPaths :
         (files[p] # NoFile /\ files'[p] = NoFile) =>
            \E c \in Ctx :
              /\ Processed(c)
              /\ sw'[c].update = p
              /\ \/ /\ ~files[p].ok
                    /\ sw'[c].last = "quarantined"
                    /\ quarantine'[<<p[1], p[3]>>] = files[p]
                 \/ /\ Valid(files[p])
                    /\ sw'[c].last = "retired"
                    /\ Len(sw'[c].statuses) = Len(ResolvedFor(p).nodes)
                    /\ AllAcceptable(sw'[c].statuses)]_vars

\* a record has been retired and a process was terminated during a sweep
C1_Witness ==
    /\ \E p \in RecordPaths : Valid(origin[p]) /\ files[p] = NoFile
    /\ \E p \in RecordPaths : Valid(origin[p]) /\ files[p] # NoFile
    /\ \E c \in Ctx : sw[c].last = "killed"

\* C2: a call of process_object_update on a valid record in which every
\* resolved replica returns an acceptable status deletes the file, adds
\* exactly 1 to successes and leaves failures as it was.
C2_AllAcceptableRetires ==
    [][\A c \in Ctx :
         LET u == sw'[c].update
         IN (/\ Processed(c)
             /\ Valid(files[u])
             /\ Len(sw'[c].statuses) = Len(ResolvedFor(u).nodes)
             /\ AllAcceptable(sw'[c].statuses))
            => /\ files'[u] = NoFile
               /\ sw'[c].successes = sw[c].successes + 1
               /\ sw'[c].failures = sw[c].failures]_vars

\* two replicas accepted a record and it was retired
C2_Witness ==
    \E c \in Ctx :
      /\ sw[c].last = "retired"
      /\ Len(sw[c].statuses) = 2
      /\ AllAcceptable(sw[c].statuses)
      /\ files[sw[c].update] = NoFile
      /\ sw[c].successes >= 1

\* C3: a call of process_object_update on a valid record in which at least
\* one resolved replica returns an unacceptable status leaves the file at its
\* path with the content the producer wrote, adds exactly 1 to failures and
\* leaves successes as it was.
C3_AnyUnacceptableRetains ==
    [][\A c \in Ctx :
         LET u == sw'[c].update
         IN (/\ Processed(c)
             /\ Valid(files[u])
             /\ SomeUnacceptable(sw'[c].statuses))
            => /\ files'[u] = files[u]
               /\ files'[u] = origin[u]
               /\ sw'[c].failures = sw[c].failures + 1
               /\ sw'[c].successes = sw[c].successes]_vars

\* partial success: one replica accepted, another did not, the record stays
C3_Witness ==
    \E c \in Ctx :
      /\ sw[c].last = "retained"
      /\ Len(sw[c].statuses) = 2
      /\ SpecAcceptable(sw[c].statuses[2])
      /\ ~SpecAcceptable(sw[c].statuses[1])
      /\ Valid(files[sw[c].update])
      /\ sw[c].failures >= 1

\* C4: a call of process_object_update on a valid record makes one delivery
\* attempt to each replica the ring resolves, in the ring's order, whatever
\* the earlier outcomes of the call and of earlier calls were.
C4_EveryReplicaOnceInOrder ==
    [][\A c \in Ctx :
         LET u == sw'[c].update
         IN (Processed(c) /\ Valid(files[u]))
            => LET g == ResolvedFor(u)
               IN /\ sw'[c].attempts = [k \in 1..Len(g.nodes) |-> <<g.nodes[k], g.part>>]
                  /\ Len(sw'[c].statuses) = Len(g.nodes)
                  /\ sw'[c].lookups = 1]_vars

\* the first replica refused and the second was still attempted
C4_Witness ==
    \E c \in Ctx :
      /\ sw[c].last = "retained"
      /\ Len(sw[c].attempts) = 2
      /\ ~SpecAcceptable(sw[c].statuses[1])
      /\ SpecAcceptable(sw[c].statuses[2])
      /\ sw[c].attempts[2] = <<sw[c].nodes[2], sw[c].part>>

\* C6: process_object_update on a file that does not deserialize moves it to
\* <device>/quarantined/objects/<base name>, looks nothing up in the ring,
\* attempts no delivery and changes no counter; and a record that is in
\* quarantine is never handed to process_object_update.
C6_MalformedQuarantined ==
    [][\A c \in Ctx :
         LET u == sw'[c].update
         IN Processed(c) =>
              /\ quarantine[<<u[1], u[3]>>] = NoFile
              /\ ~files[u].ok =>
                   /\ files'[u] = NoFile
                   /\ quarantine'[<<u[1], u[3]>>] = files[u]
                   /\ sw'[c].lookups = 0
                   /\ sw'[c].attempts = <<>>
                   /\ sw'[c].successes = sw[c].successes
                   /\ sw'[c].failures = sw[c].failures
                   /\ sw'[c].pc = "updates"]_vars

\* a corrupt file sits in quarantine under its base name
C6_Witness ==
    \E c \in Ctx :
      /\ sw[c].last = "quarantined"
      /\ quarantine[<<sw[c].update[1], sw[c].update[3]>>] = Garbage
      /\ files[sw[c].update] = NoFile

\* C8: in continuous mode the workers running at one time are never more
\* than the configured concurrency: every running worker is in the
\* coordinator's list of children, and that list, which loses a child only
\* when os.wait has returned it, never holds more than concurrency children.
Running == { pid \in Pids : Sweeping(pid) }
C8_ConcurrencyCap ==
    /\ Cardinality(Running) <= concurrency
    /\ Running \subseteq pids
    /\ Cardinality(pids) <= concurrency

\* the limit is reached, a worker runs and the coordinator waits to fork
C8_Witness ==
    /\ mode = "forever"
    /\ mpc = "slot"
    /\ Cardinality(Running) = concurrency
    /\ concurrency < Cardinality(Devices)

\* C9: with mount_check on, while a device is not mounted no step touches
\* it: its record files and quarantine stay as they are, none of its buckets
\* is removed, no context sweeps it; the loop that passes it over goes on to
\* the other devices, and every sweep starts from the full device listing.
C9_UnmountedSkipped ==
    [][/\ \A d \in Devices :
            (mount_check /\ d \notin mounted) =>
              /\ \A p \in RecordPaths :
                    (p[1] = d /\ files[p] # NoFile) => files'[p] = files[p]
              /\ \A q \in QuarantinePaths :
                    q[1] = d => quarantine'[q] = quarantine[q]
              /\ \A b \in buckets : b[1] = d => b \in buckets'
              /\ \A c \in Ctx : sw'[c].pc \in {"sweep", "prefixes", "updates"}
                                   => sw'[c].device # d
              /\ (d \in devList /\ d \notin devList')
                    => /\ mpc' = "devloop"
                       /\ devList' = devList \ {d}
       /\ (mpc \in {"start", "done", "dead"} /\ mpc' = "devloop")
              => devList' = Devices]_vars

\* a device with a pending record was passed over in this sweep while a
\* record of another device was processed
C9_Witness ==
    /\ mount_check
    /\ mpc \in {"devloop", "sweeping", "slot"}
    /\ \E p \in RecordPaths :
         /\ files[p] # NoFile
         /\ p[1] \notin mounted
         /\ p[1] \notin devList
    /\ \E c \in Ctx : sw[c].last \in {"retired", "retained", "quarantined"}

\* C10: no error of process_object_update leaves it: no context is ever
\* stopped by an exception raised while it processed a record.
C10_ErrorsStayLocal ==
    \A c \in Ctx : sw[c].pc # "raised"

(* ---------------- properties of one delivery (SpecCall) --------------- *)
\* C5: a returned status counts as acceptable exactly if it is in 200..299
\* or is 404; timeouts come back as 500 and are unacceptable.
C5_Classification ==
    call.done =>
      /\ call.accepted <=> SpecAcceptable(call.status)
      /\ call.status \in {200, 201, 204, 299, 404} => call.accepted
      /\ call.status \in {400, 500, 503} => ~call.accepted
      /\ call.env.fail \in {"connect_timeout", "response_timeout", "read_timeout"}
            => call.status = 500 /\ ~call.accepted

\* statuses at the edges of the accepted range have been classified
C5_Witness ==
    /\ call.done
    /\ call.env.fail = "none"
    /\ call.status = 299
    /\ call.accepted

\* C7: object_update returns a status and never raises; it connects once;
\* the status is the replica's when the response was read, 500 otherwise.
C7_AlwaysReturnsStatus ==
    call.done =>
      /\ ~call.raised
      /\ call.connects = 1
      /\ call.env.fail = "none" => call.status = call.env.status
      /\ call.env.fail # "none" => call.status = 500

\* a response timeout came back as the synthetic status
C7_Witness ==
    /\ call.done
    /\ call.env.fail = "response_timeout"
    /\ call.status = 500

(* --------------------- isolation of device failures ------------------- *)
\* C11: a failure that aborts the processing of one device stays with that
\* device: when a context was stopped by an exception or by an unreadable
\* pending directory, the loop over the devices is not stopped with it, so no
\* mountable device of the sweep that holds a pending record is left unswept.
C11_FailureIsolated ==
    \A c \in Ctx :
      sw[c].pc \in {"raised", "aborted"} =>
        ~(/\ mpc = "dead"
          /\ \E p \in RecordPaths :
               /\ files[p] # NoFile
               /\ Dev(p) \in devList
               /\ ~Skips(Dev(p)))

(* ------------------- continuous mode under fairness ------------------- *)
\* the steps of the coordinator process of update_forever
Coordinator ==
    \/ CoordBegin
    \/ CoordNextDevice
    \/ CoordWait
    \/ CoordFork
    \/ CoordDrain
    \/ CoordEndSweep

\* the steps of the forked child c inside object_sweep
Worker(c) ==
    \/ SweepStart(c)
    \/ NextPrefix(c)
    \/ NextUpdate(c)
    \/ EndPrefix(c)

InitForever == Init /\ mode = "forever"

NextForever ==
    \/ \E p \in RecordPaths, content \in Contents : Produce(p, content)
    \/ \E d \in Devices : ToggleMount(d)
    \/ RingChange
    \/ CoordBegin
    \/ CoordNextDevice
    \/ CoordWait
    \/ CoordFork
    \/ CoordDrain
    \/ CoordEndSweep
    \/ \E c \in Pids : SweepStart(c)
    \/ \E c \in Pids : ListDirFails(c)
    \/ \E c \in Pids : NextPrefix(c)
    \/ \E c \in Pids : NextUpdate(c)
    \/ \E c \in Pids : EndPrefix(c)
    \/ \E c \in Pids : Kill(c)

\* the coordinator and every child are processes the operating system keeps
\* scheduling: each takes its next step when it has one (sleeps are finite,
\* every delivery returns or times out); failures and kills are not owed.
\* A child inside object_sweep always has a next step (Sweeping(c) is the
\* enabling condition of Worker(c)), so its weak fairness is written out
\* with that condition in the place of ENABLED <<Worker(c)>>_vars
FairForever ==
    /\ WF_vars(Coordinator)
    /\ \A c \in Pids : []<>(~Sweeping(c)) \/ []<><<Worker(c)>>_vars

SpecForever == InitForever /\ [][NextForever]_vars /\ FairForever

\* C12: in continuous mode, if from some point on the device of a record is
\* never passed over, every pass over the record gets acceptable statuses
\* from all its replicas, and no worker is killed or meets an unreadable
\* directory, then a valid pending record is eventually deleted.
C12_EventualDelivery ==
    \A p \in RecordPaths :
      (/\ <>[](~Skips(Dev(p)))
       /\ <>[][\A c \in Pids : (Processed(c) /\ sw'[c].update = p)
                                  => AllAcceptable(sw'[c].statuses)]_vars
       /\ <>[][\A c \in Pids : ~Kill(c) /\ ~ListDirFails(c)]_vars)
      => [](Valid(files[p]) => <>(files[p] = NoFile))

(* ------------------- single-pass mode under fairness ------------------ *)
\* the steps of the calling process inside update_once_single_threaded,
\* outside object_sweep
OncePass ==
    \/ OnceNextDevice
    \/ OnceEnd

InitOnce == Init /\ mode = "once"

NextOnce ==
    \/ \E p \in RecordPaths, content \in Contents : Produce(p, content)
    \/ \E d \in Devices : ToggleMount(d)
    \/ RingChange
    \/ OnceBegin
    \/ OnceNextDevice
    \/ OnceEnd
    \/ SweepStart(0)
    \/ NextPrefix(0)
    \/ NextUpdate(0)
    \/ EndPrefix(0)

\* a call of update_once_single_threaded that has begun keeps running; that
\* it is called at all is not owed. Inside object_sweep the process always
\* has a next step, Sweeping(0) being the enabling condition of Worker(0)
FairOnce ==
    /\ WF_vars(OncePass)
    /\ []<>(~Sweeping(0)) \/ []<><<Worker(0)>>_vars

SpecOnce == InitOnce /\ [][NextOnce]_vars /\ FairOnce

\* C13: a call of update_once_single_threaded that has begun its pass over
\* the devices returns (no kill, no unreadable directory; every delivery
\* returns or times out).
C13_PassReturns ==
    [](mpc \in {"devloop", "sweeping"} => <>(mpc = "done"))

(* ------------------------ ownership of records ------------------------ *)
\* C14: in continuous mode no two workers run at one time for the same
\* device, the records a worker has listed are those of its own device, and
\* when a sweep begins no child of the sweep before is left, running or
\* unreaped; so no record file is in the hands of two workers.
C14_ExclusiveOwnership ==
    /\ \A c, d \in Pids :
         (c # d /\ Sweeping(c) /\ Sweeping(d)) =>
            /\ sw[c].device # sw[d].device
            /\ sw[c].updates \cap sw[d].updates = {}
    /\ \A c \in Pids : \A p \in sw[c].updates : Dev(p) = sw[c].device
    /\ (mode = "forever" /\ mpc = "start") =>
         /\ pids = {}
         /\ \A c \in Pids : sw[c].pc = "idle"

\* two workers walk the buckets of two devices at the same time
C14_Witness ==
    /\ mode = "forever"
    /\ \E c, d \in Pids :
         /\ c # d
         /\ sw[c].pc = "updates" /\ sw[c].updates # {}
         /\ sw[d].pc = "updates" /\ sw[d].updates # {}

C16_RecordLifecycle ==
    [][/\ \A p \in RecordPaths :
            LET q == <<p[1], p[3]>>
            IN /\ files[p] # NoFile =>
                    /\ files[p] = origin[p]
                    /\ files'[p] \in {files[p], NoFile}
               /\ (files[p] = NoFile /\ files'[p] # NoFile) =>
                    /\ origin[p] = NoFile
                    /\ origin'[p] = files'[p]
               /\ quarantine[q] # NoFile =>
                    /\ quarantine[q] = origin[p]
                    /\ quarantine'[q] = quarantine[q]
               /\ (quarantine[q] = NoFile /\ quarantine'[q] # NoFile) =>
                    /\ quarantine'[q] = files[p]
                    /\ files[p] # NoFile
                    /\ files'[p] = NoFile
               /\ (origin[p] # NoFile /\ files[p] = NoFile) =>
                    /\ files'[p] = NoFile
                    /\ \A c \in Ctx : ~(Processed(c) /\ sw'[c].update = p)
       /\ \A c \in Ctx :
            (sw'[c].successes > sw[c].successes
               \/ sw'[c].failures > sw[c].failures) =>
                 /\ Processed(c)
                 /\ files[sw'[c].update] # NoFile]_vars

\* a record was retired in an earlier sweep of its device (the counter of
\* the sweep now walking its bucket shows no success), and the later sweep
\* has processed another record of the bucket and passed the retired one by
C16_Witness ==
    \E c \in Ctx, p \in RecordPaths :
      /\ Valid(origin[p])
      /\ files[p] = NoFile
      /\ quarantine[<<p[1], p[3]>>] = NoFile
      /\ sw[c].pc = "updates"
      /\ sw[c].device = Dev(p)
      /\ sw[c].successes = 0
      /\ sw[c].last = "retained"
      /\ Bucket(sw[c].update) = Bucket(p)

(* -------------------------- session counters -------------------------- *)
\* records of device d that were retired, and valid records of d that are
\* pending
RetiredOn(d) ==
    { p \in RecordPaths : Dev(p) = d /\ Valid(origin[p]) /\ files[p] = NoFile }
PendingOn(d) ==
    { p \in RecordPaths : Dev(p) = d /\ Valid(files[p]) }

\* C17 as stated: in every context that sweeps a device the counters count
\* records of that device only: successes is at most the number of records
\* retired on the device, failures at most the number of its pending records.
C17_CountersPerDevice ==
    \A c \in Ctx :
      Sweeping(c) =>
        /\ sw[c].successes <= Cardinality(RetiredOn(sw[c].device))
        /\ sw[c].failures <= Cardinality(PendingOn(sw[c].device))

\* C17 as the code has it: a step that processes a record adds 1 to
\* successes of the processing context exactly if it retires the record and
\* 1 to failures exactly if it retains it, and changes no other context; any
\* other step leaves the counters of a context or sets them to 0, which
\* happens to a forked worker (that starts at 0 for its one device, so that
\* its counts never exceed the records of that device) and, in single-pass
\* mode, to the calling process only when a pass begins or the process dies:
\* there the counters run on from device to device. In continuous mode the
\* coordinator's counters stay 0.
C17_CountersPerSweep ==
    [][\A c \in Ctx :
         LET u == sw'[c].update
         IN /\ Processed(c) =>
                 /\ Dev(u) = sw[c].device
                 /\ sw'[c].successes = sw[c].successes +
                       (IF Valid(files[u]) /\ files'[u] = NoFile THEN 1 ELSE 0)
                 /\ sw'[c].failures = sw[c].failures +
                       (IF files'[u] # NoFile /\ sw'[c].pc # "raised" THEN 1 ELSE 0)
                 /\ \A d \in Ctx \ {c} : sw'[d] = sw[d]
            /\ ~Processed(c) =>
                 \/ /\ sw'[c].successes = sw[c].successes
                    /\ sw'[c].failures = sw[c].failures
                 \/ /\ sw'[c].successes = 0
                    /\ sw'[c].failures = 0
                    /\ \/ c \in Pids
                       \/ mpc \in {"start", "done", "dead"} /\ mpc' = "devloop"
                       \/ mpc' = "dead"
            /\ (c \in Pids /\ sw[c].pc # "sweep" /\ sw'[c].pc = "sweep") =>
                 sw'[c].successes = 0 /\ sw'[c].failures = 0
            /\ (c \in Pids /\ Sweeping(c)) =>
                 /\ sw[c].successes <= Cardinality(RetiredOn(sw[c].device))
                 /\ sw[c].failures <= Cardinality(PendingOn(sw[c].device))
            /\ mode = "forever" =>
                 sw[0].successes = 0 /\ sw[0].failures = 0]_vars

\* two workers at the same time, each with the count of its own device: one
\* has retired a record, the other has retained one
C17_Witness ==
    \E c, d \in Pids :
      /\ c # d
      /\ Sweeping(c) /\ Sweeping(d)
      /\ sw[c].successes = 1 /\ sw[c].failures = 0
      /\ sw[d].successes = 0 /\ sw[d].failures = 1
      /\ sw[0].successes = 0 /\ sw[0].failures = 0

(* ------------------------- fresh resolution --------------------------- *)
\* C18: every call of process_object_update on a valid record looks the
\* record up in the ring as it is at that call: the attempts go to exactly
\* the nodes of the current answer, in its order and with its partition, and
\* the file is deleted exactly if all of those return acceptable statuses -
\* whether or not an earlier pass, under an older answer, retained the record.
C18_ResolvedAfresh ==
    [][\A c \in Ctx :
         LET u == sw'[c].update
         IN (Processed(c) /\ Valid(files[u])) =>
              LET g == ResolvedFor(u)
              IN /\ sw'[c].nodes = g.nodes
                 /\ sw'[c].part = g.part
                 /\ sw'[c].attempts =
                       [k \in 1..Len(g.nodes) |-> <<g.nodes[k], g.part>>]
                 /\ Len(sw'[c].statuses) = Len(g.nodes)
                 /\ files'[u] = NoFile <=> AllAcceptable(sw'[c].statuses)
                 /\ files'[u] # NoFile => files'[u] = files[u]]_vars

\* a record that a pass retained under ring version 1 was processed again
\* after the ring had changed: the later pass went to the nodes of version 2
C18_Witness ==
    \E c \in Ctx :
      /\ ring = 2
      /\ sw[c].pc = "updates"
      /\ sw[c].last = "retained"
      /\ tried[sw[c].update] = 1
      /\ sw[c].nodes = GetNodes(2, "a", "c1").nodes
      /\ sw[c].nodes # GetNodes(1, "a", "c1").nodes
      /\ Len(sw[c].attempts) = Len(sw[c].nodes)
      /\ \A k \in 1..Len(sw[c].nodes) : sw[c].attempts[k][1] = sw[c].nodes[k]

(* ------------------------- empty replica set -------------------------- *)
\* C19: a call of process_object_update on a valid record for which the ring
\* resolves no node looks the record up once, attempts no delivery, deletes
\* the file, adds 1 to successes and leaves failures as it was.
C19_EmptyReplicaSetRetires ==
    [][\A c \in Ctx :
         LET u == sw'[c].update
         IN (/\ Processed(c)
             /\ Valid(files[u])
             /\ ResolvedFor(u).nodes = <<>>)
            => /\ sw'[c].lookups = 1
               /\ sw'[c].attempts = <<>>
               /\ sw'[c].statuses = <<>>
               /\ files'[u] = NoFile
               /\ quarantine' = quarantine
               /\ sw'[c].successes = sw[c].successes + 1
               /\ sw'[c].failures = sw[c].failures
               /\ sw'[c].pc = "updates"]_vars

\* a record whose container resolved to no node was retired without any
\* delivery
C19_Witness ==
    \E c \in Ctx :
      /\ sw[c].pc = "updates"
      /\ sw[c].last = "retired"
      /\ sw[c].lookups = 1
      /\ sw[c].nodes = <<>>
      /\ sw[c].attempts = <<>>
      /\ Valid(origin[sw[c].update])
      /\ files[sw[c].update] = NoFile
      /\ sw[c].successes >= 1

(* ------------------------- waiting for a slot ------------------------- *)
\* the coordinator is inside os.wait(): in the loop of line 77 or of line 94
Waiting ==
    /\ mode = "forever"
    /\ \/ mpc = "slot" /\ SlotsFull
       \/ mpc = "devloop" /\ devList = {} /\ ChildrenLeft

\* C20: whenever the continuous-mode coordinator waits for a child, its list
\* holds a child, and every child in the list was forked and not yet reaped,
\* so the wait returns once that child has exited; with every worker
\* terminating, every sweep that begins ends and the next one begins.
C20_NoSlotDeadlock ==
    /\ [](Waiting => /\ pids # {}
                     /\ \A pid \in pids : sw[pid].pc # "idle")
    /\ []<>(mpc = "start")
    /\ []<>(mpc = "devloop")

\* every slot is taken by a worker that is still running and the coordinator
\* waits with a device left to fork for
C20_Witness ==
    /\ Waiting
    /\ mpc = "slot"
    /\ curdev \in Devices
    /\ Cardinality(pids) = concurrency
    /\ \A pid \in pids : Sweeping(pid)

====
